---- MODULE Spec2Model ----
(***************************************************************************)
(* Model of the COCO annotation -> segmentation mask code of               *)
(* FoodRecognition: src/utils/segmentation_utils.py (load_imgs, load_mask, *)
(* load_data) and src/extract_segmentation.py (extractMasks,               *)
(* extractBinaryMasks).                                                    *)
(*                                                                         *)
(* Arrays are functions from pixel coordinates <<row, col>> to numbers, a  *)
(* multichannel mask is a function from channel index to such an array, a  *)
(* Python dict is a function whose DOMAIN is the key set, and a Python     *)
(* list is a sequence.  The annotation store (pycocotools COCO) is the     *)
(* three sequences categories, images, annotations, in file order.         *)
(***************************************************************************)
EXTENDS Integers, Sequences, FiniteSets, TLC

VARIABLES
    categories,      \* dataset['categories']: sequence of [id, name]
    images,          \* dataset['images']: sequence of [id, file_name, height, width]
    annotations,     \* dataset['annotations']: sequence of [image_id, category_id, segmentation]
    class_names_arg, \* the class_names argument of load_imgs / load_data
    img_size,        \* the img_size argument of load_data: <<height, width>>
    pc,              \* position of the running call
    cat_ids,         \* load_imgs: the resolved category ids
    img_ids,         \* load_imgs result: list of image ids
    img_names,       \* load_imgs result: list of file names
    class_names,     \* load_imgs result: 'background' + category names
    cat_to_class,    \* load_imgs result / load_mask argument: the channel index map
    mask,            \* load_mask result: [raised, mask, background]
    x,               \* load_data: file name decoded into x[i]
    y,               \* load_data: y[i], one resized mask per image
    i,               \* load_data: loop index
    masks            \* extractMasks / extractBinaryMasks result: one mask per image

vars == <<categories, images, annotations, class_names_arg, img_size, pc,
          cat_ids, img_ids, img_names, class_names, cat_to_class, mask, x, y, i, masks>>

----------------------------------------------------------------------------
(* Bounds of the explored inputs *)

MaxCatId == 2
MaxAnns == 2
MaskW == 2
MaxCats == 2
MaxStoreAnns == 2
MaxNative == 2
MaxTarget == 2
MaxResizeAnns == 1
MaxExtractAnns == 3

----------------------------------------------------------------------------
(* Generic helpers *)

SeqsUpTo(S, n) == UNION {[1..k -> S] : k \in 0..n}

Range(s) == {s[k] : k \in DOMAIN s}

\* the elements of a set of integers in increasing order
RECURSIVE SortedSeq(_)
SortedSeq(S) ==
    IF S = {} THEN <<>>
    ELSE LET m == CHOOSE v \in S : \A w \in S : v <= w
         IN  <<m>> \o SortedSeq(S \ {m})

Pixels(h, w) == (0..(h - 1)) \X (0..(w - 1))

\* np.zeros((h, w))
Zeros(h, w) == [p \in Pixels(h, w) |-> 0]

\* every binary array of shape (h, w)
BinaryArrays(h, w) == [Pixels(h, w) -> {0, 1}]

----------------------------------------------------------------------------
(* The annotation store, as the code queries it *)

\* coco.getAnnIds(imgIds=img_id) followed by coco.loadAnns: the
\* annotations of one image, in file order
getAnns(anns, img_id) == SelectSeq(anns, LAMBDA a : a.image_id = img_id)

\* coco.annToMask(ann): the binary rasterization of the annotation
annToMask(ann) == ann.segmentation

\* coco.loadImgs(img_id)[0]
loadImg(imgs, img_id) == CHOOSE im \in Range(imgs) : im.id = img_id

----------------------------------------------------------------------------
(* load_imgs: the channel index map *)

\* a plausible slip: the ids are sorted before they are numbered, as
\* ExtractSegmentations.__init__ does
CatToClass_Sorted(ids) ==
    LET keys == SortedSeq({0} \cup Range(ids))
    IN  [k \in Range(keys) |-> (CHOOSE p \in DOMAIN keys : keys[p] = k) - 1]

\* a plausible slip: the background key is not prepended
CatToClass_NoBackground(ids) ==
    LET LastPos(k) == CHOOSE p \in DOMAIN ids :
                         /\ ids[p] = k
                         /\ \A q \in DOMAIN ids : ids[q] = k => q <= p
    IN  [k \in Range(ids) |-> LastPos(k) - 1]

\* dict(zip([0] + cat_ids, range(len(class_names)))): a later pair with the
\* same key replaces an earlier one
CatToClass(ids) ==
    LET keys == <<0>> \o ids
        LastPos(k) == CHOOSE p \in DOMAIN keys :
                         /\ keys[p] = k
                         /\ \A q \in DOMAIN keys : keys[q] = k => q <= p
    IN  [k \in Range(keys) |-> LastPos(k) - 1]

\* coco.getCatIds(catNms=class_names): the ids of the categories, in file
\* order, whose name is requested; every id when no name is requested
getCatIds(cats, catNms) ==
    LET sel == IF Len(catNms) = 0 THEN cats
               ELSE SelectSeq(cats, LAMBDA c : c.name \in Range(catNms))
    IN  [p \in DOMAIN sel |-> sel[p].id]

\* coco.loadCats(cat_ids): the index of the store maps an id to the last
\* category of the file with that id
loadCats(cats, ids) ==
    LET Last(id) == CHOOSE p \in DOMAIN cats :
                       /\ cats[p].id = id
                       /\ \A q \in DOMAIN cats : cats[q].id = id => q <= p
    IN  [p \in DOMAIN ids |-> cats[Last(ids[p])]]

\* ['background'] + [cat['name'] for cat in cats]
ClassNames(cats, ids) ==
    LET loaded == loadCats(cats, ids)
    IN  <<"background">> \o [p \in DOMAIN loaded |-> loaded[p].name]

\* coco.getImgIds(catIds=[id]): the images with an annotation of the category
getImgIds(anns, id) == {anns[k].image_id : k \in {n \in DOMAIN anns : anns[n].category_id = id}}

\* [item for sublist in img_ids for item in sublist]
RECURSIVE Flatten(_, _, _)
Flatten(anns, ids, p) ==
    IF p > Len(ids) THEN <<>>
    ELSE SortedSeq(getImgIds(anns, ids[p])) \o Flatten(anns, ids, p + 1)

\* a plausible slip: the flattened list is returned without set()
RemoveDuplicates_Kept(flat) == {flat}

\* list(set(flat)): the elements once each, in an order the code does not fix
RemoveDuplicates(flat) ==
    LET S == Range(flat)
        n == Cardinality(S)
    IN  {s \in [1..n -> S] : \A a, b \in 1..n : s[a] = s[b] => a = b}

\* coco.loadImgs(img_id)[0]['file_name'] for each image id
ImgNames(imgs, ids) == [p \in DOMAIN ids |-> loadImg(imgs, ids[p]).file_name]

----------------------------------------------------------------------------
(* load_mask *)

\* ann['category_id'] in list(cat_to_class.keys())
InScope(ann, c2c) == ann.category_id \in DOMAIN c2c

\* np.bitwise_or(background, coco.annToMask(ann)) on 0/1 arrays
BitwiseOr(a, b) == [p \in DOMAIN a |-> IF a[p] = 1 \/ b[p] = 1 THEN 1 ELSE 0]

\* a plausible slip: the accumulator is cast but not inverted
LogicalNot_NotInverted(a) == [p \in DOMAIN a |-> IF a[p] = 0 THEN 0 ELSE 1]

\* np.logical_not(background).astype(int)
LogicalNot(a) == [p \in DOMAIN a |-> IF a[p] = 0 THEN 1 ELSE 0]

\* a plausible slip: the background accumulation sits outside the category
\* test, so that every annotation of the image punches a hole
LoadMaskStep_BackgroundUnguarded(st, ann, c2c) ==
    IF st.raised THEN st
    ELSE IF ~InScope(ann, c2c)
         THEN [st EXCEPT !.background = BitwiseOr(st.background, annToMask(ann))]
         ELSE LET ch == c2c[ann.category_id]
              IN  IF ch \notin DOMAIN st.mask
                  THEN [st EXCEPT !.raised = TRUE]
                  ELSE [st EXCEPT !.mask[ch] = annToMask(ann),
                                  !.background = BitwiseOr(st.background, annToMask(ann))]

\* a plausible slip: the rasterization is OR-ed into the channel, so that
\* the instances of a category accumulate
LoadMaskStep_Accumulated(st, ann, c2c) ==
    IF st.raised \/ ~InScope(ann, c2c) THEN st
    ELSE LET ch == c2c[ann.category_id]
         IN  IF ch \notin DOMAIN st.mask
             THEN [st EXCEPT !.raised = TRUE]
             ELSE [st EXCEPT !.mask[ch] = BitwiseOr(st.mask[ch], annToMask(ann)),
                             !.background = BitwiseOr(st.background, annToMask(ann))]

\* the body of the for loop over the annotations; st is the state of the
\* call: the mask, the background accumulator and whether it raised
\* (mask[:, :, i] with i >= n_classes is an IndexError)
LoadMaskStep(st, ann, c2c) ==
    IF st.raised \/ ~InScope(ann, c2c) THEN st
    ELSE LET ch == c2c[ann.category_id]
         IN  IF ch \notin DOMAIN st.mask
             THEN [st EXCEPT !.raised = TRUE]
             ELSE [st EXCEPT !.mask[ch] = annToMask(ann),
                             !.background = BitwiseOr(st.background, annToMask(ann))]

RECURSIVE LoadMaskLoop(_, _, _, _)
LoadMaskLoop(st, anns, k, c2c) ==
    IF k > Len(anns) THEN st
    ELSE LoadMaskLoop(LoadMaskStep(st, anns[k], c2c), anns, k + 1, c2c)

\* a plausible slip: the inverted background is computed but never stored
LoadMaskFinish_NotStored(st) == st

\* background = np.logical_not(background); mask[:, :, 0] = background
LoadMaskFinish(st) ==
    IF st.raised THEN st
    ELSE [st EXCEPT !.mask[0] = LogicalNot(st.background)]

load_mask(imgs, anns, img_id, c2c) ==
    LET img == loadImg(imgs, img_id)
        n_classes == Cardinality(DOMAIN c2c)
        st0 == [raised |-> FALSE,
                mask |-> [ch \in 0..(n_classes - 1) |-> Zeros(img.height, img.width)],
                background |-> Zeros(img.height, img.width)]
    IN  LoadMaskFinish(LoadMaskLoop(st0, getAnns(anns, img_id), 1, c2c))

----------------------------------------------------------------------------
(* Specification SpecMask: load_mask on one image, for every channel index *)
(* map load_imgs builds from a resolved id list (ids of the store are not  *)
(* 0; a list with a repeated id gives a map whose values exceed the number *)
(* of its keys) and every annotation list, on an image of one row          *)

NoMask == [raised |-> FALSE, mask |-> <<>>, background |-> <<>>]

MaskAnnotations ==
    [image_id : {1}, category_id : 1..MaxCatId, segmentation : BinaryArrays(1, MaskW)]

\* the resolved id lists the channel index maps are built from
ResolvedLists == SeqsUpTo(1..MaxCatId, 2)

InitMask ==
    /\ categories = <<>>
    /\ images = <<[id |-> 1, file_name |-> "f1", height |-> 1, width |-> MaskW]>>
    /\ annotations \in SeqsUpTo(MaskAnnotations, MaxAnns)
    /\ class_names_arg = <<>>
    /\ img_size = <<1, MaskW>>
    /\ pc = "load_mask"
    /\ cat_ids = <<>>
    /\ img_ids = <<1>>
    /\ img_names = <<"f1">>
    /\ class_names = <<>>
    /\ cat_to_class \in {CatToClass(ids) : ids \in ResolvedLists}
    /\ mask = NoMask
    /\ x = <<>>
    /\ y = <<>>
    /\ i = 0
    /\ masks = <<>>

LoadMask ==
    /\ pc = "load_mask"
    /\ mask' = load_mask(images, annotations, 1, cat_to_class)
    /\ pc' = IF mask'.raised THEN "raised" ELSE "done"
    /\ UNCHANGED <<categories, images, annotations, class_names_arg, img_size,
                   cat_ids, img_ids, img_names, class_names, cat_to_class, x, y, i, masks>>

NextMask == LoadMask

SpecMask == InitMask /\ [][NextMask]_vars

----------------------------------------------------------------------------
(* load_data *)

\* a plausible slip: the sample is taken at the left/top edge of the
\* target pixel instead of its centre
PILResize_EdgeSampled(a, h, w, size) ==
    LET ow == size[1]
        oh == size[2]
    IN  [h |-> oh, w |-> ow,
         data |-> [p \in Pixels(oh, ow) |->
                      a[<<(p[1] * h) \div oh, (p[2] * w) \div ow>>]]]

\* np.array(Image.fromarray(a).resize(size, Image.NEAREST)) for an array a
\* of h rows and w columns: PIL reads size as (width, height), samples the
\* source at the centre of each target pixel, and the array of the result
\* has size[2] rows and size[1] columns
PILResize(a, h, w, size) ==
    LET ow == size[1]
        oh == size[2]
    IN  [h |-> oh, w |-> ow,
         data |-> [p \in Pixels(oh, ow) |->
                      a[<<((2 * p[1] + 1) * h) \div (2 * oh),
                          ((2 * p[2] + 1) * w) \div (2 * ow)>>]]]

\* numpy's rule for mask_scaled[:, :, j] = src: src must broadcast to the
\* shape of the slice
Broadcastable(src, dh, dw) ==
    /\ src.h = dh \/ src.h = 1
    /\ src.w = dw \/ src.w = 1

Broadcast(src, dh, dw) ==
    [p \in Pixels(dh, dw) |->
        src.data[<<IF src.h = 1 THEN 0 ELSE p[1], IF src.w = 1 THEN 0 ELSE p[2]>>]]

\* the body of the loop over img_ids, lines 85-92: the native mask of the
\* image, every channel j < len(class_names) resized with img_size and
\* stored in mask_scaled of shape img_size + (len(class_names),)
ScaledMask(m, img, size, n) ==
    LET resized == [j \in 0..(n - 1) |-> PILResize(m.mask[j], img.height, img.width, size)]
    IN  IF \/ m.raised
           \/ \E j \in 0..(n - 1) : j \notin DOMAIN m.mask
           \/ \E j \in 0..(n - 1) : ~Broadcastable(resized[j], size[1], size[2])
        THEN [raised |-> TRUE, mask |-> <<>>]
        ELSE [raised |-> FALSE,
              mask |-> [j \in 0..(n - 1) |-> Broadcast(resized[j], size[1], size[2])]]

\* line 60: load_imgs(coco, class_names), lines 120-139
LoadImgs ==
    /\ pc = "load_imgs"
    /\ LET ids == getCatIds(categories, class_names_arg)
       IN  /\ cat_ids' = ids
           /\ class_names' = ClassNames(categories, ids)
           /\ cat_to_class' = CatToClass(ids)
           /\ \E deduped \in RemoveDuplicates(Flatten(annotations, ids, 1)) :
                 /\ img_ids' = deduped
                 /\ img_names' = ImgNames(images, deduped)
    /\ x' = <<>>
    /\ y' = <<>>
    /\ i' = 0
    /\ pc' = "load_x"
    /\ UNCHANGED <<categories, images, annotations, class_names_arg, img_size, mask, masks>>

\* lines 69-72: x[i] = img_to_array(load_img(path, target_size=img_size));
\* the decoded picture is kept as the file it was read from and its shape
LoadImage ==
    /\ pc = "load_x"
    /\ i < Len(img_names)
    /\ x' = Append(x, [file_name |-> img_names[i + 1], shape |-> <<img_size[1], img_size[2], 3>>])
    /\ i' = i + 1
    /\ UNCHANGED <<categories, images, annotations, class_names_arg, img_size, pc,
                   cat_ids, img_ids, img_names, class_names, cat_to_class, mask, y, masks>>

\* line 78: the loop over img_names is over, y is allocated
StartMasks ==
    /\ pc = "load_x"
    /\ i = Len(img_names)
    /\ y' = <<>>
    /\ i' = 0
    /\ pc' = "load_y"
    /\ UNCHANGED <<categories, images, annotations, class_names_arg, img_size,
                   cat_ids, img_ids, img_names, class_names, cat_to_class, mask, x, masks>>

\* lines 84-92: one iteration of the loop over img_ids
LoadMaskScaled ==
    /\ pc = "load_y"
    /\ i < Len(img_ids)
    /\ LET img_id == img_ids[i + 1]
           m == load_mask(images, annotations, img_id, cat_to_class)
           scaled == ScaledMask(m, loadImg(images, img_id), img_size, Len(class_names))
       IN  /\ mask' = m
           /\ IF scaled.raised
              THEN /\ pc' = "raised"
                   /\ UNCHANGED <<y, i>>
              ELSE /\ y' = Append(y, scaled.mask)
                   /\ i' = i + 1
                   /\ pc' = pc
    /\ UNCHANGED <<categories, images, annotations, class_names_arg, img_size,
                   cat_ids, img_ids, img_names, class_names, cat_to_class, x, masks>>

\* line 96: return x, y
ReturnData ==
    /\ pc = "load_y"
    /\ i = Len(img_ids)
    /\ pc' = "done"
    /\ UNCHANGED <<categories, images, annotations, class_names_arg, img_size,
                   cat_ids, img_ids, img_names, class_names, cat_to_class, mask, x, y, i, masks>>

NextData == LoadImgs \/ LoadImage \/ StartMasks \/ LoadMaskScaled \/ ReturnData

----------------------------------------------------------------------------
(* Specification SpecData: load_data over every small store (categories   *)
(* with any ids and names, repeated ids and id 0 included; any assignment  *)
(* of annotations to images and categories) and every class-name request,  *)
(* on 1x1 images                                                           *)

Names == {"a", "b"}

\* the requests: no name (every category), one name, both names; the code
\* only tests membership in the list, so order and repetition do not matter
Requests == {<<>>, <<"a">>, <<"b">>, <<"a", "b">>}

FileName(id) == IF id = 1 THEN "f1" ELSE IF id = 2 THEN "f2" ELSE "f3"

StoreImageIds == {1, 2}

StoreCatIds == {0, 1, 2}

StoreImages ==
    [id \in StoreImageIds |-> [id |-> id, file_name |-> FileName(id), height |-> 1, width |-> 1]]

StoreAnnotations ==
    [image_id : StoreImageIds, category_id : StoreCatIds, segmentation : {[p \in Pixels(1, 1) |-> 1]}]

InitData ==
    /\ categories \in SeqsUpTo([id : StoreCatIds, name : Names], MaxCats)
    /\ images = StoreImages
    /\ annotations \in SeqsUpTo(StoreAnnotations, MaxStoreAnns)
    /\ class_names_arg \in Requests
    /\ img_size = <<1, 1>>
    /\ pc = "load_imgs"
    /\ cat_ids = <<>>
    /\ img_ids = <<>>
    /\ img_names = <<>>
    /\ class_names = <<>>
    /\ cat_to_class = <<>>
    /\ mask = NoMask
    /\ x = <<>>
    /\ y = <<>>
    /\ i = 0
    /\ masks = <<>>

SpecData == InitData /\ [][NextData]_vars

----------------------------------------------------------------------------
(* Specification SpecResize: load_data on one image of every small native  *)
(* size, for every target size and every annotation of two categories      *)

ResizeCategories == <<[id |-> 1, name |-> "a"], [id |-> 2, name |-> "b"]>>

InitResize ==
    /\ categories = ResizeCategories
    /\ \E nh, nw \in 1..MaxNative :
          /\ images = <<[id |-> 1, file_name |-> "f1", height |-> nh, width |-> nw]>>
          /\ annotations \in SeqsUpTo([image_id : {1}, category_id : {1, 2},
                                       segmentation : BinaryArrays(nh, nw)], MaxResizeAnns)
    /\ class_names_arg = <<>>
    /\ img_size \in (1..MaxTarget) \X (1..MaxTarget)
    /\ pc = "load_imgs"
    /\ cat_ids = <<>>
    /\ img_ids = <<>>
    /\ img_names = <<>>
    /\ class_names = <<>>
    /\ cat_to_class = <<>>
    /\ mask = NoMask
    /\ x = <<>>
    /\ y = <<>>
    /\ i = 0
    /\ masks = <<>>

SpecResize == InitResize /\ [][NextData]_vars

----------------------------------------------------------------------------
(* ExtractSegmentations.extractMasks and extractBinaryMasks *)

\* the number of values of np.uint16
UInt16Range == 65536

\* a plausible slip: the label is written over the covered pixels instead
\* of being added
LabelStep_Overwritten(m, ann) ==
    [p \in DOMAIN m |-> IF annToMask(ann)[p] = 1 THEN ann.category_id % UInt16Range ELSE m[p]]

\* mask += np.array(annToMask(ann), dtype=np.uint16) * catId: the product
\* and the sum are uint16, both wrap
LabelStep(m, ann) ==
    [p \in DOMAIN m |->
        (m[p] + ((annToMask(ann)[p] * ann.category_id) % UInt16Range)) % UInt16Range]

RECURSIVE LabelLoop(_, _, _)
LabelLoop(m, anns, k) ==
    IF k > Len(anns) THEN m
    ELSE LabelLoop(LabelStep(m, anns[k]), anns, k + 1)

\* lines 88-94: the flattened label mask of one image
LabelMask(anns, img) == LabelLoop(Zeros(img.height, img.width), getAnns(anns, img.id), 1)

\* a plausible slip: the rasterizations are added, as extractMasks does
BinaryStep_Added(m, ann) == [p \in DOMAIN m |-> (m[p] + annToMask(ann)[p]) % 256]

\* mask = np.bitwise_or(mask, np.array(annToMask(ann), dtype=np.uint8))
BinaryStep(m, ann) ==
    [p \in DOMAIN m |-> IF m[p] = 1 \/ annToMask(ann)[p] = 1 THEN 1 ELSE 0]

RECURSIVE BinaryLoop(_, _, _)
BinaryLoop(m, anns, k) ==
    IF k > Len(anns) THEN m
    ELSE BinaryLoop(BinaryStep(m, anns[k]), anns, k + 1)

\* the loop of lines 111-113 over a list of annotations of an h x w image
BinaryUnion(anns, h, w) == BinaryLoop(Zeros(h, w), anns, 1)

\* lines 108-113: the binary union mask of one image
BinaryMask(anns, img) == BinaryUnion(getAnns(anns, img.id), img.height, img.width)

\* lines 87-97: one iteration of the loop of extractMasks over the images
ExtractMasksImage ==
    /\ pc = "extractMasks"
    /\ i < Len(images)
    /\ masks' = Append(masks, LabelMask(annotations, images[i + 1]))
    /\ i' = i + 1
    /\ UNCHANGED <<categories, images, annotations, class_names_arg, img_size, pc,
                   cat_ids, img_ids, img_names, class_names, cat_to_class, mask, x, y>>

\* line 98: return masks
ExtractMasksReturn ==
    /\ pc = "extractMasks"
    /\ i = Len(images)
    /\ pc' = "label_done"
    /\ UNCHANGED <<categories, images, annotations, class_names_arg, img_size,
                   cat_ids, img_ids, img_names, class_names, cat_to_class, mask, x, y, i, masks>>

\* lines 107-116: one iteration of the loop of extractBinaryMasks
ExtractBinaryMasksImage ==
    /\ pc = "extractBinaryMasks"
    /\ i < Len(images)
    /\ masks' = Append(masks, BinaryMask(annotations, images[i + 1]))
    /\ i' = i + 1
    /\ UNCHANGED <<categories, images, annotations, class_names_arg, img_size, pc,
                   cat_ids, img_ids, img_names, class_names, cat_to_class, mask, x, y>>

\* line 117: return masks
ExtractBinaryMasksReturn ==
    /\ pc = "extractBinaryMasks"
    /\ i = Len(images)
    /\ pc' = "binary_done"
    /\ UNCHANGED <<categories, images, annotations, class_names_arg, img_size,
                   cat_ids, img_ids, img_names, class_names, cat_to_class, mask, x, y, i, masks>>

NextExtract ==
    \/ ExtractMasksImage
    \/ ExtractMasksReturn
    \/ ExtractBinaryMasksImage
    \/ ExtractBinaryMasksReturn

\* category ids of the explored stores: small ones and one whose double
\* does not fit 16 bits (an id above 65535 makes line 94 raise)
ExtractCatIds == {1, 40000}

\* the shape (rows, columns) of the images of the explored stores
ExtractShape == <<1, 2>>

ExtractPixels == Pixels(ExtractShape[1], ExtractShape[2])

InitExtract ==
    /\ categories = <<>>
    /\ images = [id \in StoreImageIds |->
                     [id |-> id, file_name |-> FileName(id),
                      height |-> ExtractShape[1], width |-> ExtractShape[2]]]
    /\ annotations \in SeqsUpTo([image_id : StoreImageIds, category_id : ExtractCatIds,
                                 segmentation : BinaryArrays(ExtractShape[1], ExtractShape[2])],
                                MaxExtractAnns)
    /\ class_names_arg = <<>>
    /\ img_size = ExtractShape
    /\ pc \in {"extractMasks", "extractBinaryMasks"}
    /\ cat_ids = <<>>
    /\ img_ids = <<>>
    /\ img_names = <<>>
    /\ class_names = <<>>
    /\ cat_to_class = <<>>
    /\ mask = NoMask
    /\ x = <<>>
    /\ y = <<>>
    /\ i = 0
    /\ masks = <<>>

SpecExtract == InitExtract /\ [][NextExtract]_vars

----------------------------------------------------------------------------
(* Properties of load_mask, checked under SpecMask *)

Returned == pc = "done" /\ ~mask.raised

ImgPixels == Pixels(1, MaskW)

Channels == DOMAIN mask.mask

Overlap(a, b) == \E p \in DOMAIN a : a[p] = 1 /\ b[p] = 1

\* C1: at every pixel of a returned mask, channel 0 is 1 exactly where
\* every other channel is 0 (channel 0 is the negation of the union of the
\* other channels).
C1_BackgroundIsNegatedUnion ==
    Returned =>
        \A p \in ImgPixels :
            (mask.mask[0][p] = 1) <=> (\A ch \in Channels \ {0} : mask.mask[ch][p] = 0)

\* C2 as stated: for every annotation a of a selected category whose
\* rasterization R no other annotation of the image overlaps, the channel
\* of a's category is 1 exactly on R and channel 0 is 0 exactly on R.
C2_AsStated ==
    Returned =>
        \A k \in DOMAIN annotations :
            LET a == annotations[k] IN
            (/\ a.category_id # 0
             /\ InScope(a, cat_to_class)
             /\ \A j \in DOMAIN annotations \ {k} :
                    ~Overlap(annToMask(annotations[j]), annToMask(a)))
            => /\ mask.mask[cat_to_class[a.category_id]] = annToMask(a)
               /\ \A p \in ImgPixels : (mask.mask[0][p] = 0) <=> (annToMask(a)[p] = 1)

\* C2 (amended): for every annotation a of a selected category that is the
\* only annotation of the image whose category id is a key of the channel
\* index map (annotations of other categories may exist anywhere, also on
\* top of R), the channel of a's category is 1 exactly on R and channel 0
\* is 0 exactly on R.
C2_SoleInScopeAnnotation ==
    Returned =>
        \A k \in DOMAIN annotations :
            LET a == annotations[k] IN
            (/\ a.category_id # 0
             /\ InScope(a, cat_to_class)
             /\ \A j \in DOMAIN annotations \ {k} : ~InScope(annotations[j], cat_to_class))
            => /\ mask.mask[cat_to_class[a.category_id]] = annToMask(a)
               /\ \A p \in ImgPixels : (mask.mask[0][p] = 0) <=> (annToMask(a)[p] = 1)

C2_Witness ==
    /\ Returned
    /\ Len(annotations) = 2
    /\ \E k \in DOMAIN annotations :
          LET a == annotations[k] IN
          /\ a.category_id # 0
          /\ InScope(a, cat_to_class)
          /\ \E p, q \in ImgPixels : annToMask(a)[p] = 1 /\ annToMask(a)[q] = 0
          /\ \A j \in DOMAIN annotations \ {k} :
                /\ ~InScope(annotations[j], cat_to_class)
                /\ \E q \in ImgPixels : annToMask(annotations[j])[q] = 1 /\ annToMask(a)[q] = 0

\* C3: when no annotation of the image has a category id that is a key of
\* the channel index map, load_mask returns channel 0 all ones and every
\* other channel all zeros.
C3_NoInScopeAnnotationAllBackground ==
    (pc \in {"done", "raised"} /\ \A k \in DOMAIN annotations : ~InScope(annotations[k], cat_to_class))
    => /\ pc = "done"
       /\ \A p \in ImgPixels :
             /\ mask.mask[0][p] = 1
             /\ \A ch \in Channels \ {0} : mask.mask[ch][p] = 0

C3_Witness ==
    /\ Returned
    /\ Cardinality(Channels) >= 2
    /\ Len(annotations) >= 1
    /\ \A k \in DOMAIN annotations :
          /\ ~InScope(annotations[k], cat_to_class)
          /\ \E p \in ImgPixels : annToMask(annotations[k])[p] = 1

\* the annotation list without the annotations whose category id is not a
\* key of the channel index map
InScopeOnly(anns, c2c) == SelectSeq(anns, LAMBDA a : InScope(a, c2c))

\* C4: the result of load_mask on the full annotation list equals, in every
\* channel including channel 0, its result on the list without the
\* out-of-scope annotations.
C4_OutOfScopeInvisible ==
    pc \in {"done", "raised"} =>
        LET filtered == load_mask(images, InScopeOnly(annotations, cat_to_class), 1, cat_to_class)
        IN  /\ mask.raised = filtered.raised
            /\ ~mask.raised => mask.mask = filtered.mask

C4_Witness ==
    /\ Returned
    /\ \E k, j \in DOMAIN annotations :
          /\ InScope(annotations[k], cat_to_class)
          /\ ~InScope(annotations[j], cat_to_class)
          /\ \E p \in ImgPixels :
                annToMask(annotations[j])[p] = 1 /\ annToMask(annotations[k])[p] = 0

\* the positions, in query order, of the annotations of category c
PositionsOf(c) == {k \in DOMAIN annotations : annotations[k].category_id = c}

----------------------------------------------------------------------------
(* Properties of load_imgs and load_data, checked under SpecData and       *)
(* SpecResize                                                              *)

ImgsLoaded == pc \in {"load_x", "load_y", "done", "raised"}

Distinct(seq) == \A a, b \in DOMAIN seq : seq[a] = seq[b] => a = b

\* C5: when the resolved category ids are distinct and none is 0, the
\* channel index map has 1 + (number of resolved categories) entries, maps
\* key 0 to 0, and is one-to-one from {0} \cup resolved ids onto
\* 0 .. n_classes - 1, n_classes the length of the class-name list.
C5_ChannelMapIsBijection ==
    (ImgsLoaded /\ Distinct(cat_ids) /\ 0 \notin Range(cat_ids))
    => /\ Cardinality(DOMAIN cat_to_class) = 1 + Len(cat_ids)
       /\ DOMAIN cat_to_class = {0} \cup Range(cat_ids)
       /\ cat_to_class[0] = 0
       /\ \A k1, k2 \in DOMAIN cat_to_class : cat_to_class[k1] = cat_to_class[k2] => k1 = k2
       /\ {cat_to_class[k] : k \in DOMAIN cat_to_class} = 0..(Len(class_names) - 1)

C5_Witness ==
    /\ ImgsLoaded
    /\ Len(cat_ids) = 2
    /\ Distinct(cat_ids)
    /\ 0 \notin Range(cat_ids)
    /\ class_names_arg = <<>>

\* the categories the category query selects, in the order of the store
QueryOrder ==
    IF Len(class_names_arg) = 0 THEN categories
    ELSE SelectSeq(categories, LAMBDA c : c.name \in Range(class_names_arg))

ChannelOrderFollowsQuery ==
    /\ Len(cat_ids) = Len(QueryOrder)
    /\ Len(class_names) = 1 + Len(QueryOrder)
    /\ class_names[1] = "background"
    /\ \A p \in DOMAIN QueryOrder :
          /\ cat_ids[p] = QueryOrder[p].id
          /\ cat_to_class[cat_ids[p]] = p
          /\ class_names[p + 1] = QueryOrder[p].name
    /\ \A k \in DOMAIN cat_to_class :
          /\ (cat_to_class[k] + 1) \in DOMAIN class_names
          /\ class_names[cat_to_class[k] + 1] \in
                IF k \in Range(cat_ids)
                THEN {c.name : c \in {d \in Range(categories) : d.id = k}}
                ELSE {"background"}

\* C6 as stated: the id at (0-based) position p of the resolved list, in
\* query order, is mapped to channel p + 1, class_names is 'background'
\* followed by the names in that order, and class_names[map[k]] is the
\* name of category k for every key k.
C6_AsStated == ImgsLoaded => ChannelOrderFollowsQuery

\* C6 (amended): the same, when the category ids of the store are pairwise
\* distinct.
C6_ChannelOrderFollowsQuery ==
    (ImgsLoaded /\ Distinct([p \in DOMAIN categories |-> categories[p].id]))
    => ChannelOrderFollowsQuery

C6_Witness ==
    /\ ImgsLoaded
    /\ Len(cat_ids) = 2
    /\ cat_ids[1] > cat_ids[2]
    /\ categories[1].name = "b"
    /\ categories[2].name = "a"

\* the target pixel <<r, c>> of a th x tw nearest-neighbour resize of an
\* h x w array takes the source pixel under its centre
NearestResized(a, h, w, th, tw) ==
    [p \in Pixels(th, tw) |->
        a[<<((2 * p[1] + 1) * h) \div (2 * th), ((2 * p[2] + 1) * w) \div (2 * tw)>>]]

\* C7: for every target size (targetH, targetW), targetH # targetW
\* included, load_data completes and Y[i, :, :, j] is channel j of the
\* native mask of the i-th selected image resized to targetH rows by
\* targetW columns.
C7_MasksResizedToTarget ==
    /\ pc # "raised"
    /\ pc = "done" =>
          /\ Len(y) = Len(img_ids)
          /\ \A n \in DOMAIN y :
                LET img == loadImg(images, img_ids[n])
                    native == load_mask(images, annotations, img_ids[n], cat_to_class)
                IN  /\ DOMAIN y[n] = 0..(Len(class_names) - 1)
                    /\ \A j \in DOMAIN y[n] :
                          y[n][j] = NearestResized(native.mask[j], img.height, img.width,
                                                   img_size[1], img_size[2])

\* C8: img_ids has no duplicates and holds exactly the images with an
\* annotation of a resolved category; img_names is aligned to it; x[n] and
\* y[n] of load_data are built from the same image.
C8_ImagesDedupedAndAligned ==
    /\ ImgsLoaded =>
          /\ Distinct(img_ids)
          /\ Range(img_ids) =
                {im \in StoreImageIds : \E k \in DOMAIN annotations :
                                      /\ annotations[k].image_id = im
                                      /\ annotations[k].category_id \in Range(cat_ids)}
          /\ Len(img_names) = Len(img_ids)
          /\ \A n \in DOMAIN img_ids : img_names[n] = FileName(img_ids[n])
    /\ pc = "done" =>
          /\ Len(x) = Len(img_ids)
          /\ Len(y) = Len(img_ids)
          /\ \A n \in DOMAIN img_ids :
                /\ x[n].file_name = FileName(img_ids[n])
                /\ y[n] = ScaledMask(load_mask(images, annotations, img_ids[n], cat_to_class),
                                     loadImg(images, img_ids[n]), img_size,
                                     Len(class_names)).mask

C8_Witness ==
    /\ pc = "done"
    /\ Len(img_ids) = 1
    /\ Len(x) = 1
    /\ Len(y) = 1
    /\ \E k, j \in DOMAIN annotations :
          /\ annotations[k].image_id = annotations[j].image_id
          /\ annotations[k].category_id # annotations[j].category_id
          /\ {annotations[k].category_id, annotations[j].category_id} \subseteq Range(cat_ids)

----------------------------------------------------------------------------
(* Properties of extractMasks and extractBinaryMasks, checked under        *)
(* SpecExtract                                                             *)

\* the sum of the category ids of the annotations anns[k..] covering p
RECURSIVE CoveringSum(_, _, _)
CoveringSum(anns, p, k) ==
    IF k > Len(anns) THEN 0
    ELSE (IF annToMask(anns[k])[p] = 1 THEN anns[k].category_id ELSE 0)
         + CoveringSum(anns, p, k + 1)

TrueSum(n, p) == CoveringSum(getAnns(annotations, images[n].id), p, 1)

\* C9 as stated: every pixel of every label mask equals the sum of the
\* category ids of the annotations covering it, also when that sum
\* exceeds 65535.
C9_AsStated ==
    pc = "label_done" =>
        \A n \in DOMAIN masks : \A p \in ExtractPixels : masks[n][p] = TrueSum(n, p)

\* C9 (amended): every pixel of every label mask is a 16-bit unsigned
\* value equal to the sum of the category ids of the annotations covering
\* it (each listed annotation counted) modulo 65536, hence to the sum
\* itself whenever the sum is at most 65535.
C9_LabelIsSumModulo ==
    pc = "label_done" =>
        /\ Len(masks) = Len(images)
        /\ \A n \in DOMAIN masks : \A p \in ExtractPixels :
              /\ masks[n][p] \in 0..(UInt16Range - 1)
              /\ masks[n][p] = TrueSum(n, p) % UInt16Range
              /\ TrueSum(n, p) < UInt16Range => masks[n][p] = TrueSum(n, p)

C9_Witness ==
    /\ pc = "label_done"
    /\ \E n \in DOMAIN masks : \E p, q \in ExtractPixels :
          /\ TrueSum(n, p) >= UInt16Range
          /\ TrueSum(n, q) = 40001

\* the list without the later repetitions of a rasterization
RECURSIVE WithoutDuplicates(_)
WithoutDuplicates(anns) ==
    IF Len(anns) = 0 THEN <<>>
    ELSE LET front == SubSeq(anns, 1, Len(anns) - 1)
             last == anns[Len(anns)]
         IN  IF \E k \in DOMAIN front : annToMask(front[k]) = annToMask(last)
             THEN WithoutDuplicates(front)
             ELSE Append(WithoutDuplicates(front), last)

Reversed(anns) == [k \in DOMAIN anns |-> anns[Len(anns) + 1 - k]]

\* C10: every binary union mask is the pixelwise OR of the rasterizations
\* of the image's annotations, with values in {0, 1}; it is the mask of
\* the list without repeated rasterizations and of the list in another
\* order.
C10_BinaryUnionIdempotent ==
    pc = "binary_done" =>
        /\ Len(masks) = Len(images)
        /\ \A n \in DOMAIN masks :
              LET anns == getAnns(annotations, images[n].id)
              IN  /\ \A p \in ExtractPixels :
                         masks[n][p] = IF \E k \in DOMAIN anns : annToMask(anns[k])[p] = 1
                                       THEN 1 ELSE 0
                  /\ masks[n] = BinaryUnion(WithoutDuplicates(anns), ExtractShape[1], ExtractShape[2])
                  /\ masks[n] = BinaryUnion(Reversed(anns), ExtractShape[1], ExtractShape[2])

C10_Witness ==
    /\ pc = "binary_done"
    /\ \E n \in DOMAIN masks :
          LET anns == getAnns(annotations, images[n].id)
          IN  /\ Len(anns) = 3
              /\ annToMask(anns[1]) = annToMask(anns[3])
              /\ annToMask(anns[1]) # annToMask(anns[2])
              /\ \E p \in ExtractPixels : annToMask(anns[1])[p] = 1
              /\ \E p \in ExtractPixels : annToMask(anns[2])[p] = 1 /\ annToMask(anns[1])[p] = 0

====
